---- MODULE Spec2Model ----
(***************************************************************************)
(* Model of the test-generation server of src/mcpServer.js: the handler    *)
(* of POST /mcp/tools/generate-tests-nlp, the endpoint enumeration of GET  *)
(* /mcp/tools/list-endpoints, the provider stream it drains and the        *)
(* artifact file it writes.                                                *)
(*                                                                         *)
(* Text is modelled as a sequence of lexical tokens (a JSON text is the    *)
(* sequence of its punctuation, key and literal tokens; a path is the      *)
(* sequence of its "/" separators, names and braces), so that string       *)
(* concatenation is \o and parsing, splitting and replacing are computed.  *)
(***************************************************************************)
EXTENDS Integers, Sequences, FiniteSets, TLC

(***************************************************************************)
(* Bounds of the model.                                                    *)
(***************************************************************************)
\* the largest number of (path, method) pairs of a spec document
MaxEndpoints == 2

(***************************************************************************)
(* JavaScript values.                                                      *)
(***************************************************************************)
Undefined == [t |-> "undefined"]
Null == [t |-> "null"]
Num(n) == [t |-> "number", v |-> n]
Str(s) == [t |-> "string", v |-> s]
Arr(a) == [t |-> "array", v |-> a]
Obj(f) == [t |-> "object", v |-> f]
EmptyObj == Obj([k \in {} |-> Undefined])

\* !v
Falsy(v) ==
    \/ v.t \in {"undefined", "null"}
    \/ v.t = "number" /\ v.v = 0
    \/ v.t = "string" /\ v.v = <<>>

\* v.key (a TypeError on undefined and null is the caller's to model)
Get(v, key) ==
    CASE v.t = "object" -> IF key \in DOMAIN v.v THEN v.v[key] ELSE Undefined
      [] v.t \in {"array", "string"} /\ key = "length" -> Num(Len(v.v))
      [] OTHER -> Undefined

\* v?.key
OptGet(v, key) == IF v.t \in {"undefined", "null"} THEN Undefined ELSE Get(v, key)

\* `${v}` inside a template literal, as a token sequence
ToText(v) ==
    CASE v.t = "string" -> v.v
      [] v.t = "undefined" -> <<"undefined">>
      [] v.t = "null" -> <<"null">>
      [] v.t = "number" -> <<"[number]">>
      [] v.t = "array" -> <<"[array]">>
      [] OTHER -> <<"[object Object]">>

(***************************************************************************)
(* JSON.parse over a token sequence.                                       *)
(***************************************************************************)
KeyTokens == {"\"testCaseName\":", "\"steps\":", "\"action\":", "\"expectedResult\":"}
LiteralTokens == {"null", "0", "5", "\"\"", "\"X\"", "\"Y\"", "\"A\"", "\"E\""}

KeyOf(tok) ==
    CASE tok = "\"testCaseName\":" -> "testCaseName"
      [] tok = "\"steps\":" -> "steps"
      [] tok = "\"action\":" -> "action"
      [] tok = "\"expectedResult\":" -> "expectedResult"

LiteralOf(tok) ==
    CASE tok = "null" -> Null
      [] tok = "0" -> Num(0)
      [] tok = "5" -> Num(5)
      [] tok = "\"\"" -> Str(<<>>)
      [] tok = "\"X\"" -> Str(<<"X">>)
      [] tok = "\"Y\"" -> Str(<<"Y">>)
      [] tok = "\"A\"" -> Str(<<"A">>)
      [] tok = "\"E\"" -> Str(<<"E">>)

ParseFail == [ok |-> FALSE, val |-> Undefined, next |-> 0]
ParseOk(v, n) == [ok |-> TRUE, val |-> v, next |-> n]
TokAt(toks, p) == IF p \in 1..Len(toks) THEN toks[p] ELSE "<eof>"

RECURSIVE ParseValue(_, _)
RECURSIVE ParseElements(_, _, _)
RECURSIVE ParseMembers(_, _, _)

\* the value that starts at token p
ParseValue(toks, p) ==
    LET tok == TokAt(toks, p) IN
    CASE tok \in LiteralTokens -> ParseOk(LiteralOf(tok), p + 1)
      [] tok = "[" -> IF TokAt(toks, p + 1) = "]"
                      THEN ParseOk(Arr(<<>>), p + 2)
                      ELSE ParseElements(toks, p + 1, <<>>)
      [] tok = "{" -> IF TokAt(toks, p + 1) = "}"
                      THEN ParseOk(EmptyObj, p + 2)
                      ELSE ParseMembers(toks, p + 1, EmptyObj.v)
      [] OTHER -> ParseFail

\* the elements of an array from token p on, acc the elements already read
ParseElements(toks, p, acc) ==
    LET e == ParseValue(toks, p) IN
    IF ~e.ok THEN ParseFail
    ELSE CASE TokAt(toks, e.next) = "," -> ParseElements(toks, e.next + 1, Append(acc, e.val))
           [] TokAt(toks, e.next) = "]" -> ParseOk(Arr(Append(acc, e.val)), e.next + 1)
           [] OTHER -> ParseFail

\* the members of an object from token p on; a repeated key keeps its last value
ParseMembers(toks, p, acc) ==
    IF TokAt(toks, p) \notin KeyTokens THEN ParseFail
    ELSE LET m == ParseValue(toks, p + 1) IN
         IF ~m.ok THEN ParseFail
         ELSE LET acc2 == (KeyOf(toks[p]) :> m.val) @@ acc IN
              CASE TokAt(toks, m.next) = "," -> ParseMembers(toks, m.next + 1, acc2)
                [] TokAt(toks, m.next) = "}" -> ParseOk(Obj(acc2), m.next + 1)
                [] OTHER -> ParseFail

\* JSON.parse(text): the value, or a SyntaxError
JSONParse(toks) ==
    LET r == ParseValue(toks, 1) IN
    IF r.ok /\ r.next = Len(toks) + 1
    THEN [threw |-> FALSE, val |-> r.val]
    ELSE [threw |-> TRUE, val |-> Undefined]

(***************************************************************************)
(* The OpenAPI document and the endpoint enumeration of list-endpoints.    *)
(* A document is the sequence of its paths in key order, each with its     *)
(* method keys in key order.                                               *)
(***************************************************************************)
FullDoc ==
    << [path |-> <<"/", "items">>, methods |-> <<"get">>],
       [path |-> <<"/", "items", "/", "{", "id", "}">>, methods |-> <<"delete", "get">>],
       [path |-> <<"/", "users">>, methods |-> <<"post", "get">>] >>

RECURSIVE TakePairs(_, _)
\* the document cut after its first k (path, method) pairs
TakePairs(doc, k) ==
    IF k = 0 \/ doc = <<>> THEN <<>>
    ELSE LET e == Head(doc) IN
         IF Len(e.methods) >= k
         THEN << [path |-> e.path, methods |-> SubSeq(e.methods, 1, k)] >>
         ELSE <<e>> \o TakePairs(Tail(doc), k - Len(e.methods))

RECURSIVE CountPairs(_)
CountPairs(doc) == IF doc = <<>> THEN 0 ELSE Len(Head(doc).methods) + CountPairs(Tail(doc))

Min(a, b) == IF a < b THEN a ELSE b

\* a document whose endpoints share one path
AltDoc == << [path |-> <<"/", "items">>, methods |-> <<"get", "post">>] >>

\* a document with a path parameter whose name is no \w+ word
HyphenDoc ==
    << [path |-> <<"/", "items", "/", "{", "item-id", "}", "/", "{", "id", "}">>,
        methods |-> <<"put">>] >>

\* the documents openapi.json may hold
Docs ==
    { TakePairs(FullDoc, k) : k \in 0..Min(MaxEndpoints, CountPairs(FullDoc)) }
    \cup { TakePairs(AltDoc, k) : k \in 0..Min(MaxEndpoints, CountPairs(AltDoc)) }
    \cup { HyphenDoc }

WordTokens == {"items", "id"}

RECURSIVE ReplaceParams(_)
\* path.replace(/{(\w+)}/g, ':$1')
ReplaceParams(p) ==
    IF p = <<>> THEN <<>>
    ELSE IF Len(p) >= 3 /\ p[1] = "{" /\ p[2] \in WordTokens /\ p[3] = "}"
         THEN <<":", p[2]>> \o ReplaceParams(SubSeq(p, 4, Len(p)))
         ELSE <<Head(p)>> \o ReplaceParams(Tail(p))

\* method.toUpperCase()
ToUpperCase(m) ==
    CASE m = "get" -> "GET"
      [] m = "post" -> "POST"
      [] m = "delete" -> "DELETE"
      [] m = "put" -> "PUT"
      [] OTHER -> m

RECURSIVE MethodsOfRaw(_, _)
\* the inner loop with the path pushed as the document spells it
MethodsOfRaw(path, methods) ==
    IF methods = <<>> THEN <<>>
    ELSE << [path |-> path, method |-> ToUpperCase(Head(methods))] >>
         \o MethodsOfRaw(path, Tail(methods))

RECURSIVE MethodsOf(_, _)
\* the inner loop: one endpoint per method key of one path
MethodsOf(path, methods) ==
    IF methods = <<>> THEN <<>>
    ELSE << [path |-> ReplaceParams(path), method |-> ToUpperCase(Head(methods))] >>
         \o MethodsOf(path, Tail(methods))

RECURSIVE Enumerate(_)
\* the outer loop: the paths in document order
Enumerate(doc) ==
    IF doc = <<>> THEN <<>>
    ELSE MethodsOf(Head(doc).path, Head(doc).methods) \o Enumerate(Tail(doc))

(***************************************************************************)
(* Assembly of one collection item.                                        *)
(***************************************************************************)
\* endpoint.replace(/^\//, "")
StripLeadingSlash(p) == IF p # <<>> /\ p[1] = "/" THEN Tail(p) ELSE p

RECURSIVE SplitFrom(_, _, _)
\* the segments of p from its first token on, cur the segment being read
SplitFrom(p, cur, acc) ==
    IF p = <<>> THEN Append(acc, cur)
    ELSE IF Head(p) = "/" THEN SplitFrom(Tail(p), <<>>, Append(acc, cur))
         ELSE SplitFrom(Tail(p), Append(cur, Head(p)), acc)

\* p.split("/")
Split(p) == SplitFrom(p, <<>>, <<>>)

\* the request descriptor of an endpoint
RequestOf(method, endpoint) ==
    [ method |-> method,
      header |-> << [key |-> "Content-Type", value |-> "application/json"] >>,
      url |-> [ raw |-> <<"{{BASE_URL}}">> \o endpoint,
                host |-> << "{{BASE_URL}}" >>,
                path |-> Split(StripLeadingSlash(endpoint)) ] ]

\* the script line numbered with the index of map as it is
ExecLineZeroBased(s, idx) ==
    [ step |-> idx, action |-> ToText(Get(s, "action")),
      status |-> 200, comment |-> ToText(Get(s, "expectedResult")) ]

\* the script line of step s, the idx-th (from 0) of the steps
ExecLine(s, idx) ==
    [ step |-> idx + 1, action |-> ToText(Get(s, "action")),
      status |-> 200, comment |-> ToText(Get(s, "expectedResult")) ]

\* steps.map(...) throws a TypeError when steps is no array or an element is
\* null or undefined
MapThrows(steps) ==
    \/ steps.t # "array"
    \/ \E j \in 1..Len(steps.v) : steps.v[j].t \in {"undefined", "null"}

ExecOf(steps) == [j \in 1..Len(steps.v) |-> ExecLine(steps.v[j], j - 1)]

\* the fallback test case of an endpoint
DefaultTest(method, endpoint) ==
    Obj([ testCaseName |-> Str(<<method, " ">> \o endpoint \o <<" Default Test">>),
          steps |-> Arr(<< Obj([action |-> Str(<<"Verify response status">>),
                               expectedResult |-> Str(<<"200 OK">>)]) >>) ])

\* the check without the length of steps
NotExpectedFormatNoLength(nlpTestCase) ==
    \/ Falsy(nlpTestCase)
    \/ Falsy(Get(nlpTestCase, "steps"))

\* !nlpTestCase || !nlpTestCase.steps?.length
NotExpectedFormat(nlpTestCase) ==
    \/ Falsy(nlpTestCase)
    \/ Falsy(OptGet(Get(nlpTestCase, "steps"), "length"))

\* the test case an item is built from
Validated(nlpTestCase, method, endpoint) ==
    IF NotExpectedFormat(nlpTestCase) THEN DefaultTest(method, endpoint) ELSE nlpTestCase

\* the item pushed for an endpoint and its validated test case
ItemOf(tc, method, endpoint) ==
    [ name |-> Get(tc, "testCaseName"),
      request |-> RequestOf(method, endpoint),
      event |-> << [ listen |-> "test",
                     script |-> [ type |-> "text/javascript",
                                  exec |-> ExecOf(Get(tc, "steps")) ] ] >> ]

(***************************************************************************)
(* The provider: what a streamed completion may deliver.                   *)
(***************************************************************************)
\* one network chunk; content is chunk.choices[0]?.delta?.content
Chunk(c) == [content |-> c]

\* chunk.choices[0]?.delta?.content || ""
TextOf(chunk) == IF Falsy(chunk.content) THEN <<>> ELSE chunk.content.v

StepText == <<"{", "\"action\":", "\"A\"", ",", "\"expectedResult\":", "\"E\"", "}">>

\* a well-formed answer with two steps, with a leading and a closing chunk
\* that carry no text
StreamTwoSteps ==
    << Chunk(Str(<<>>)),
       Chunk(Str(<<"{", "\"testCaseName\":", "\"X\"", ",">>)),
       Chunk(Str(<<"\"steps\":", "[">> \o StepText \o <<",">> \o StepText \o <<"]", "}">>)),
       Chunk(Undefined) >>
\* a well-formed answer with one step
StreamOneStep ==
    << Chunk(Str(<<"{", "\"testCaseName\":", "\"Y\"", ",", "\"steps\":", "[">>)),
       Chunk(Str(StepText \o <<"]", "}">>)) >>
\* one step and no testCaseName
StreamNoName == << Chunk(Str(<<"{", "\"steps\":", "[">> \o StepText \o <<"]", "}">>)) >>
\* valid JSON, empty steps
StreamEmptySteps ==
    << Chunk(Str(<<"{", "\"testCaseName\":", "\"X\"", ",">>)),
       Chunk(Str(<<"\"steps\":", "[", "]", "}">>)) >>
\* valid JSON, no steps
StreamNoSteps == << Chunk(Str(<<"{", "\"testCaseName\":", "\"X\"", "}">>)) >>
\* valid JSON, no object
StreamNull == << Chunk(Str(<<"null">>)) >>
StreamNumber == << Chunk(Str(<<"5">>)) >>
\* invalid JSON: an answer cut short
StreamTruncated == << Chunk(Str(<<"{", "\"testCaseName\":", "\"X\"", ",">>)) >>
\* invalid JSON: no text at all
StreamNoText == << Chunk(Undefined) >>
\* steps of the wrong type
StreamStepsString == << Chunk(Str(<<"{", "\"steps\":", "\"X\"", "}">>)) >>
StreamStepsNull == << Chunk(Str(<<"{", "\"steps\":", "[", "null", "]", "}">>)) >>

\* the streams the provider may answer one call with
Streams ==
    { StreamTwoSteps, StreamOneStep, StreamNoName, StreamEmptySteps, StreamNoSteps,
      StreamNull, StreamNumber, StreamTruncated, StreamNoText, StreamStepsString,
      StreamStepsNull }
\* the streams of the runs with two concurrent requests
ConcStreams == { StreamOneStep, StreamEmptySteps, StreamTruncated }

(***************************************************************************)
(* State.                                                                  *)
(***************************************************************************)
Requests == {1, 2}
Providers == {"groq", "openai", "gemini"}

VARIABLES
    provider,    \* process.env.AI_PROVIDER || "groq"
    req,         \* req[r]: the state of the handler run of request r
    files,       \* the files of generated-tests/: path -> text
    lastWriter   \* the request whose writeFileSync came last, 0 when none

vars == <<provider, req, files, lastWriter>>

\* a handler run that has not been started
IdleReq ==
    [ pc |-> "idle",          \* idle, fetch, create, stream, ended
      endpoints |-> <<>>,     \* the endpoints fetched
      i |-> 0,                \* the endpoint of the current loop iteration
      rawResponse |-> <<>>,
      stream |-> <<>>,        \* the chunks the open provider stream still holds
      open |-> 0,             \* provider streams requested and not yet ended
      calls |-> <<>>,         \* the endpoint indexes of the provider calls made
      item |-> <<>>,          \* collection.item
      out |-> <<>>,           \* the events written to the response body
      status |-> 0,           \* the HTTP status sent with res.status().json(), 0 if none
      ends |-> 0,             \* how often the response was ended
      outcome |-> "none",     \* none, http400, done, error
      wrote |-> <<>>,         \* the text of a writeFileSync made in this step
      \* the history of the run
      fetched |-> FALSE,      \* the fetch of the endpoints has answered
      opened |-> 0,           \* the provider streams opened
      drained |-> <<>>,       \* the rawResponse of every stream that ended
      tests |-> <<>>,         \* the nlpTestCase every item was built from
      writes |-> 0,           \* the writeFileSync calls made
      doc |-> <<>>,           \* the document the endpoints were listed from
      received |-> <<>>,      \* per provider call, the text of every chunk received
      failedAt |-> 0,         \* the endpoint whose provider call or stream failed, 0 if none
      upstream |-> "",        \* the message of that failure
      gone |-> FALSE,         \* the client has disconnected
      goneAt |-> 0 ]          \* the endpoint in work when it did

\* every provider taken for an OpenAI-compatible one
IsOAICompatibleAny == provider \in Providers

IsOAICompatible == provider \in {"openai", "groq"}

FilePath == <<"generated-tests/", provider, "_combined_collection.json">>

CollectionOf(item) ==
    [ info |-> [ name |-> <<"Generated API Test Collection (", provider, ")">>,
                 schema |-> "https://schema.getpostman.com/json/collection/v2.1.0/collection.json" ],
      item |-> item ]

\* JSON.stringify of an item: a key whose value is undefined is left out
StringifyItem(it) ==
    IF it.name.t = "undefined"
    THEN [request |-> it.request, event |-> it.event]
    ELSE it

\* JSON.stringify of a collection
Stringify(c) == [ info |-> c.info, item |-> [j \in 1..Len(c.item) |-> StringifyItem(c.item[j])] ]

(***************************************************************************)
(* The events of the response body.                                        *)
(***************************************************************************)
StartEvent(n) == [ev |-> "start", step |-> 1, msg |-> <<"Starting AI test generation for ", n, " endpoints...">>]
AnalyzingEvent(method, endpoint) ==
    [ev |-> "analyzing", step |-> <<"analyzing-">> \o endpoint,
     msg |-> <<"Analyzing ", method, " ">> \o endpoint \o <<"...">>]
PartialEvent(endpoint, text) == [ev |-> "partial", step |-> <<"stream-">> \o endpoint, partial |-> text]
DoneEvent(c) == [ev |-> "done", step |-> "done", savedTo |-> FilePath, postmanCollection |-> Stringify(c)]
ErrorEvent(msg) == [ev |-> "error", error |-> msg]

(***************************************************************************)
(* The handler of generate-tests-nlp, cut at its suspension points.  Each  *)
(* operator below maps the state of a run to its state at the next await,  *)
(* return or end of the response.                                          *)
(***************************************************************************)
\* the catch block saving the items collected so far
CatchSavePartial(s, msg) ==
    [s EXCEPT !.out = Append(@, ErrorEvent(msg)), !.pc = "ended", !.ends = @ + 1,
              !.outcome = "error", !.open = 0, !.stream = <<>>,
              !.wrote = << [collection |-> Stringify(CollectionOf(s.item))] >>,
              !.writes = @ + 1]

\* the catch block without res.end(): the run is not stopped
CatchKeepGoing(s, msg) ==
    [s EXCEPT !.out = Append(@, ErrorEvent(msg)), !.outcome = "error"]

\* the catch block: one error event, then the end of the response
Catch(s, msg) ==
    [s EXCEPT !.out = Append(@, ErrorEvent(msg)), !.pc = "ended", !.ends = @ + 1,
              !.outcome = "error", !.open = 0, !.stream = <<>>]

\* the artifact written from the collection as it was before the last push
FinalizeStale(s) ==
    [s EXCEPT !.wrote = << [collection |->
                              Stringify(CollectionOf(SubSeq(s.item, 1, Len(s.item) - 1)))] >>,
              !.writes = @ + 1,
              !.out = Append(@, DoneEvent(CollectionOf(s.item))),
              !.pc = "ended", !.ends = @ + 1, !.outcome = "done"]

\* after the loop: the artifact is written, the done event sent, the response ended
Finalize(s) ==
    [s EXCEPT !.wrote = << [collection |-> Stringify(CollectionOf(s.item))] >>,
              !.writes = @ + 1,
              !.out = Append(@, DoneEvent(CollectionOf(s.item))),
              !.pc = "ended", !.ends = @ + 1, !.outcome = "done"]

\* the item put in front of the collection instead of behind
CompleteUnshift(s, nlpTestCase) ==
    LET ep == s.endpoints[s.i]
        method == ToUpperCase(ep.method)
        tc == Validated(nlpTestCase, method, ep.path)
    IN IF MapThrows(Get(tc, "steps"))
       THEN Catch(s, "TypeError")
       ELSE [s EXCEPT !.item = <<ItemOf(tc, method, ep.path)>> \o @, !.i = @ + 1,
                      !.tests = Append(@, tc)]

\* the rest of an iteration once nlpTestCase is set: the fallback, the item
Complete(s, nlpTestCase) ==
    LET ep == s.endpoints[s.i]
        method == ToUpperCase(ep.method)
        tc == Validated(nlpTestCase, method, ep.path)
    IN IF MapThrows(Get(tc, "steps"))
       THEN Catch(s, "TypeError")
       ELSE [s EXCEPT !.item = Append(@, ItemOf(tc, method, ep.path)), !.i = @ + 1,
                      !.tests = Append(@, tc)]

\* the provider calls of all the endpoints left, issued at once
CallProviderFanOut(s) ==
    [s EXCEPT !.calls = @ \o [j \in 1..(Len(s.endpoints) - s.i + 1) |-> s.i + j - 1],
              !.open = @ + (Len(s.endpoints) - s.i + 1),
              !.pc = "create", !.rawResponse = <<>>]

\* the provider call of the current iteration
CallProvider(s) ==
    [s EXCEPT !.calls = Append(@, s.i), !.open = @ + 1, !.pc = "create", !.rawResponse = <<>>,
              !.received = Append(@, <<>>)]

\* the head of an iteration with the analyzing line logged and not written
AnalyzeLogOnly(s) == s

\* the head of an iteration: the analyzing event
Analyze(s) ==
    LET ep == s.endpoints[s.i]
    IN [s EXCEPT !.out = Append(@, AnalyzingEvent(ToUpperCase(ep.method), ep.path))]

RECURSIVE RunLoop(_)
\* the loop from the head of iteration s.i up to the next await or the end
RunLoop(s) ==
    IF s.pc = "ended" THEN s
    ELSE IF s.i > Len(s.endpoints) THEN Finalize(s)
    ELSE IF IsOAICompatible THEN CallProvider(Analyze(s))
    ELSE RunLoop(Complete(Analyze(s), Undefined))

\* the 400 answer without its return: the handler goes on, setHeader throws
\* on the answered response and the catch block writes and ends once more
BeginNoReturn(s, endpoints) ==
    IF endpoints = <<>>
    THEN [s EXCEPT !.status = 400, !.pc = "ended", !.ends = @ + 2, !.outcome = "error",
                   !.out = Append(@, ErrorEvent("ERR_HTTP_HEADERS_SENT"))]
    ELSE RunLoop([s EXCEPT !.endpoints = endpoints, !.i = 1, !.pc = "run",
                           !.out = Append(@, StartEvent(Len(endpoints)))])

\* the handler without the check for an empty endpoint list
BeginUnchecked(s, endpoints) ==
    RunLoop([s EXCEPT !.endpoints = endpoints, !.i = 1, !.pc = "run",
                      !.out = Append(@, StartEvent(Len(endpoints)))])

\* the handler once the endpoints are fetched, up to the first provider call
Begin(s, endpoints) ==
    IF endpoints = <<>>
    THEN [s EXCEPT !.status = 400, !.pc = "ended", !.ends = @ + 1, !.outcome = "http400"]
    ELSE RunLoop([s EXCEPT !.endpoints = endpoints, !.i = 1, !.pc = "run",
                           !.out = Append(@, StartEvent(Len(endpoints)))])

\* one chunk of the stream, the partial event written whatever the text
OnChunkAlways(s, chunk) ==
    LET text == TextOf(chunk)
    IN [s EXCEPT !.rawResponse = @ \o text, !.stream = Tail(@),
                 !.received[Len(s.received)] = Append(@, text),
                 !.out = Append(@, PartialEvent(s.endpoints[s.i].path, text))]

\* one chunk of the stream
OnChunk(s, chunk) ==
    LET text == TextOf(chunk)
        s1 == [s EXCEPT !.rawResponse = @ \o text, !.stream = Tail(@),
                        !.received[Len(s.received)] = Append(@, text)]
    IN IF text # <<>>
       THEN [s1 EXCEPT !.out = Append(@, PartialEvent(s.endpoints[s.i].path, text))]
       ELSE s1

\* the end of the stream: JSON.parse, the item, the next iteration
OnStreamEnd(s) ==
    LET parsed == JSONParse(s.rawResponse)
        s1 == [s EXCEPT !.open = @ - 1, !.pc = "run", !.drained = Append(@, s.rawResponse)]
    IN IF parsed.threw THEN Catch(s1, "SyntaxError")
       ELSE RunLoop(Complete(s1, parsed.val))

(***************************************************************************)
(* Actions.                                                                *)
(***************************************************************************)
\* the artifact appended to instead of overwritten
CommitAppend(r, s) ==
    /\ req' = [req EXCEPT ![r] = [s EXCEPT !.wrote = <<>>]]
    /\ files' = IF s.wrote = <<>> THEN files
                ELSE IF FilePath \in DOMAIN files
                THEN (FilePath :> [collection |->
                        [ info |-> s.wrote[1].collection.info,
                          item |-> files[FilePath].collection.item \o s.wrote[1].collection.item ]])
                     @@ files
                ELSE (FilePath :> s.wrote[1]) @@ files
    /\ lastWriter' = IF s.wrote # <<>> THEN r ELSE lastWriter
    /\ UNCHANGED provider

\* request r moves to state s; a writeFileSync of the step reaches the file
Commit(r, s) ==
    /\ req' = [req EXCEPT ![r] = [s EXCEPT !.wrote = <<>>]]
    /\ files' = IF s.wrote # <<>> THEN (FilePath :> s.wrote[1]) @@ files ELSE files
    /\ lastWriter' = IF s.wrote # <<>> THEN r ELSE lastWriter
    /\ UNCHANGED provider

\* a client posts to generate-tests-nlp: the handler fetches the endpoints
Receive(r) ==
    /\ req[r].pc = "idle"
    /\ Commit(r, [req[r] EXCEPT !.pc = "fetch"])

\* the fetch of list-endpoints answers with the endpoints of the document
FetchResolved(r) ==
    /\ req[r].pc = "fetch"
    /\ \E doc \in Docs :
          Commit(r, Begin([req[r] EXCEPT !.fetched = TRUE, !.doc = doc], Enumerate(doc)))

\* the fetch of list-endpoints, or the decoding of its answer, throws
FetchFails(r) ==
    /\ req[r].pc = "fetch"
    /\ Commit(r, Catch(req[r], "fetch failed"))

\* the provider accepts the call and opens a stream
CreateResolved(r, S) ==
    /\ req[r].pc = "create"
    /\ \E st \in S : Commit(r, [req[r] EXCEPT !.stream = st, !.pc = "stream", !.opened = @ + 1])

\* a rejected provider call issued once more before the request gives up
CreateFailsRetry(r) ==
    /\ req[r].pc = "create"
    /\ IF Len(req[r].calls) <= req[r].i
       THEN Commit(r, [req[r] EXCEPT !.calls = Append(@, req[r].i)])
       ELSE Commit(r, Catch([req[r] EXCEPT !.failedAt = req[r].i, !.upstream = "ProviderError"],
                            "ProviderError"))

\* the provider call is rejected: a transport or authentication failure
CreateFails(r) ==
    /\ req[r].pc = "create"
    /\ Commit(r, Catch([req[r] EXCEPT !.failedAt = req[r].i, !.upstream = "ProviderError"],
                       "ProviderError"))

\* the next chunk of the stream arrives
ChunkArrives(r) ==
    /\ req[r].pc = "stream"
    /\ req[r].stream # <<>>
    /\ Commit(r, OnChunk(req[r], Head(req[r].stream)))

\* the stream breaks: a transport failure while iterating
StreamFails(r) ==
    /\ req[r].pc = "stream"
    /\ Commit(r, Catch([req[r] EXCEPT !.failedAt = req[r].i, !.upstream = "ProviderError"],
                       "ProviderError"))

\* the stream ends
StreamEnds(r) ==
    /\ req[r].pc = "stream"
    /\ req[r].stream = <<>>
    /\ Commit(r, OnStreamEnd(req[r]))

\* the client of request r goes away while the handler is at work; the handler
\* has no listener for it and its writes to the closed response do not throw
ClientDisconnect(r) ==
    /\ req[r].pc \in {"fetch", "create", "stream"}
    /\ ~req[r].gone
    /\ Commit(r, [req[r] EXCEPT !.gone = TRUE, !.goneAt = req[r].i])

Init ==
    /\ provider \in Providers
    /\ req = [r \in Requests |-> IdleReq]
    /\ files = [p \in {} |-> <<>>]
    /\ lastWriter = 0

\* one request
Next ==
    \/ Receive(1)
    \/ FetchResolved(1)
    \/ FetchFails(1)
    \/ CreateResolved(1, Streams)
    \/ CreateFails(1)
    \/ ChunkArrives(1)
    \/ StreamFails(1)
    \/ StreamEnds(1)
    \/ ClientDisconnect(1)

Spec == Init /\ [][Next]_vars

\* the steps of the run of request r that its fetch and its provider owe it:
\* every fetch answers or fails, every provider call is accepted or rejected,
\* every stream delivers its next chunk, ends or breaks
Progress(r) ==
    \/ FetchResolved(r)
    \/ FetchFails(r)
    \/ CreateResolved(r, Streams)
    \/ CreateFails(r)
    \/ ChunkArrives(r)
    \/ StreamFails(r)
    \/ StreamEnds(r)

\* one request whose awaited operations all settle
SpecLive == Init /\ [][Next]_vars /\ WF_vars(Progress(1))

\* two requests that overlap at their suspension points
NextConc ==
    \E r \in Requests :
        \/ Receive(r)
        \/ FetchResolved(r)
        \/ FetchFails(r)
        \/ CreateResolved(r, ConcStreams)
        \/ CreateFails(r)
        \/ ChunkArrives(r)
        \/ StreamFails(r)
        \/ StreamEnds(r)

SpecConc == Init /\ [][NextConc]_vars

(***************************************************************************)
(* Properties.                                                             *)
(***************************************************************************)
Last(q) == q[Len(q)]
IsPrefix(p, q) == Len(p) <= Len(q) /\ SubSeq(q, 1, Len(p)) = p
EventsOfKind(out, kind) == { j \in 1..Len(out) : out[j].ev = kind }

\* text decodes to an object with a non-empty steps sequence
DecodesToTestCase(text) ==
    LET p == JSONParse(text) IN
    /\ ~p.threw
    /\ p.val.t = "object"
    /\ Get(p.val, "steps").t = "array"
    /\ Get(p.val, "steps").v # <<>>

\* text is valid JSON for an object whose steps is missing or an empty sequence
DecodesWithoutSteps(text) ==
    LET p == JSONParse(text) IN
    /\ ~p.threw
    /\ p.val.t = "object"
    /\ \/ "steps" \notin DOMAIN p.val.v
       \/ p.val.v["steps"] = Arr(<<>>)

\* {testCaseName: "<METHOD> <path> Default Test",
\*  steps: [{action: "Verify response status", expectedResult: "200 OK"}]}
CanonicalFallback(ep) ==
    [ t |-> "object",
      v |-> [ testCaseName |-> [t |-> "string", v |-> <<ep.method, " ">> \o ep.path \o <<" Default Test">>],
              steps |-> [ t |-> "array",
                          v |-> << [ t |-> "object",
                                     v |-> [ action |-> [t |-> "string", v |-> <<"Verify response status">>],
                                             expectedResult |-> [t |-> "string", v |-> <<"200 OK">>] ] ] >> ] ] ]

\* C1: in every state the collection of a request holds one item per endpoint
\* of a prefix of its enumerated endpoints, the j-th item carrying the method
\* and the URL of the j-th endpoint; at the done event the prefix is the whole
\* enumeration, and the collection the event carries has the same order.
C1_CollectionOrder ==
    \A r \in Requests :
        LET s == req[r] IN
        /\ Len(s.item) <= Len(s.endpoints)
        /\ s.pc \in {"create", "stream"} => Len(s.item) = s.i - 1
        /\ \A j \in 1..Len(s.item) :
              /\ s.item[j].request.method = s.endpoints[j].method
              /\ s.item[j].request.url.raw = <<"{{BASE_URL}}">> \o s.endpoints[j].path
        /\ s.outcome = "done" =>
              /\ Len(s.item) = Len(s.endpoints)
              /\ LET c == Last(s.out).postmanCollection.item IN
                 /\ Len(c) = Len(s.endpoints)
                 /\ \A j \in 1..Len(c) :
                       /\ c[j].request.method = s.endpoints[j].method
                       /\ c[j].request.url.raw = <<"{{BASE_URL}}">> \o s.endpoints[j].path

\* a request is done with two items of different endpoints
C1_Witness ==
    \E r \in Requests :
        /\ req[r].outcome = "done"
        /\ Len(req[r].item) >= 2
        /\ req[r].item[1].request # req[r].item[2].request

\* C2: whenever a drained provider text does not decode to an object with a
\* non-empty steps sequence, the test case used for that endpoint is the
\* canonical fallback.
C2_FallbackLaw ==
    \A r \in Requests :
        \A j \in 1..Len(req[r].drained) :
            ~DecodesToTestCase(req[r].drained[j]) =>
                /\ j <= Len(req[r].tests)
                /\ req[r].tests[j] = CanonicalFallback(req[r].endpoints[j])

\* C3: a provider stream that ended without a transport failure and whose
\* text is undecodable or of the wrong shape causes no error event, and the
\* request goes on past that endpoint.
C3_DegradeNotFail ==
    \A r \in Requests :
        \A j \in 1..Len(req[r].drained) :
            ~DecodesToTestCase(req[r].drained[j]) =>
                /\ Len(req[r].item) >= j
                /\ \A e \in EventsOfKind(req[r].out, "error") :
                      req[r].out[e].error = "ProviderError"

\* C4: when the drained text is valid JSON for an object whose steps is
\* missing or empty, the item appended for that endpoint is built from the
\* canonical fallback: its name is "<METHOD> <path> Default Test" and it has
\* the one script line of the fallback step.
C4_EmptyStepsFallback ==
    \A r \in Requests :
        \A j \in 1..Len(req[r].drained) :
            DecodesWithoutSteps(req[r].drained[j]) =>
                /\ j <= Len(req[r].item)
                /\ req[r].tests[j] = CanonicalFallback(req[r].endpoints[j])
                /\ req[r].item[j].name =
                      [t |-> "string",
                       v |-> <<req[r].endpoints[j].method, " ">> \o req[r].endpoints[j].path
                             \o <<" Default Test">>]
                /\ LET exec == req[r].item[j].event[1].script.exec IN
                   /\ Len(exec) = 1
                   /\ exec[1].step = 1
                   /\ exec[1].action = <<"Verify response status">>
                   /\ exec[1].comment = <<"200 OK">>

\* a request has appended items for a text with empty steps and for a text
\* with no steps
C4_Witness ==
    \E r \in Requests :
        \E j, k \in 1..Len(req[r].item) :
            /\ j <= Len(req[r].drained) /\ k <= Len(req[r].drained)
            /\ ~JSONParse(req[r].drained[j]).threw
            /\ Get(JSONParse(req[r].drained[j]).val, "steps") = Arr(<<>>)
            /\ ~JSONParse(req[r].drained[k]).threw
            /\ JSONParse(req[r].drained[k]).val.t = "object"
            /\ Get(JSONParse(req[r].drained[k]).val, "steps") = Undefined

RECURSIVE ConcatPartials(_, _, _)
\* the concatenation of the partial payloads of out[from..to]
ConcatPartials(out, from, to) ==
    IF from > to THEN <<>>
    ELSE out[from].partial \o ConcatPartials(out, from + 1, to)

\* two endpoints, endpoint 1 completed, the second provider call rejected
C5_Scenario(s) ==
    /\ Len(s.endpoints) = 2
    /\ s.calls = <<1, 2>>
    /\ s.opened = 1
    /\ Len(s.item) = 1
    /\ s.outcome = "error"

\* C5 as claimed: in the scenario the stream holds the events of endpoint 1,
\* then the error event and nothing else: no analyzing and no partial event
\* of endpoint 2.
C5_NoEventForSecond ==
    \A r \in Requests :
        LET s == req[r] n == Len(s.out) IN
        C5_Scenario(s) =>
            /\ Cardinality(EventsOfKind(s.out, "analyzing")) = 1
            /\ s.out[n].ev = "error"
            /\ \A j \in 3..(n - 1) : s.out[j].ev = "partial"

\* C5 as amended: in the scenario the stream is the start event, the analyzing
\* event of endpoint 1, the partial events of endpoint 1 (whose payloads make
\* up the text drained for it), the analyzing event of endpoint 2 and the
\* error event, in this order; it holds no partial event of endpoint 2.
C5_AnalyzingThenError ==
    \A r \in Requests :
        LET s == req[r] n == Len(s.out) IN
        C5_Scenario(s) =>
            /\ n >= 4
            /\ s.out[1].ev = "start"
            /\ s.out[2].ev = "analyzing"
            /\ s.out[2].msg = <<"Analyzing ", s.endpoints[1].method, " ">> \o s.endpoints[1].path \o <<"...">>
            /\ \A j \in 3..(n - 2) : s.out[j].ev = "partial"
            /\ ConcatPartials(s.out, 3, n - 2) = s.drained[1]
            /\ s.out[n - 1].ev = "analyzing"
            /\ s.out[n - 1].msg = <<"Analyzing ", s.endpoints[2].method, " ">> \o s.endpoints[2].path \o <<"...">>
            /\ s.out[n] = [ev |-> "error", error |-> "ProviderError"]
            /\ s.ends = 1

\* the scenario, with partial events written for endpoint 1
C5_Witness ==
    \E r \in Requests :
        /\ C5_Scenario(req[r])
        /\ Cardinality(EventsOfKind(req[r].out, "partial")) >= 2

\* C6: when the enumeration yields no endpoint the request ends with HTTP
\* status 400, with no event written, no provider call and no artifact write.
C6_EmptySpec ==
    \A r \in Requests :
        LET s == req[r] IN
        (s.fetched /\ s.endpoints = <<>>) =>
            /\ s.pc = "ended"
            /\ s.outcome = "http400"
            /\ s.status = 400
            /\ s.ends = 1
            /\ s.out = <<>>
            /\ s.calls = <<>>
            /\ s.writes = 0
            /\ lastWriter # r

\* a request was answered with status 400
C6_Witness == \E r \in Requests : req[r].fetched /\ req[r].status = 400

\* C7: the step in which an exception is caught appends exactly one error
\* event and ends the response; the events written before stay as they are,
\* no step removes or changes an event, and after the error event the run
\* writes nothing more.  A stream whose text cannot be decoded ends so.
C7_ErrorEndsStream ==
    [][ \A r \in Requests :
          LET s == req[r] t == req'[r] IN
          /\ IsPrefix(s.out, t.out)
          /\ s.outcome = "error" => t = s
          /\ (t.outcome = "error" /\ s.outcome # "error") =>
                /\ t.out = Append(s.out, Last(t.out))
                /\ Last(t.out).ev = "error"
                /\ t.pc = "ended"
                /\ t.ends = 1
          /\ EventsOfKind(t.out, "error") # {} =>
                /\ t.outcome = "error"
                /\ EventsOfKind(t.out, "error") = {Len(t.out)}
          /\ (Len(t.drained) > Len(s.drained) /\ JSONParse(Last(t.drained)).threw) =>
                t.outcome = "error"
      ]_vars

\* an error event that follows partial events of the second endpoint
C7_Witness ==
    \E r \in Requests :
        /\ req[r].outcome = "error"
        /\ Len(req[r].item) = 1
        /\ Len(req[r].out) >= 2
        /\ req[r].out[Len(req[r].out) - 1].ev = "partial"
        /\ Last(req[r].out).ev = "error"

\* C8: a request has at most one provider stream open; the calls are made in
\* endpoint order, and the call of an endpoint is made only when the streams
\* of all endpoints before it have ended and their items are appended.
C8_OneStreamAtATime ==
    \A r \in Requests :
        LET s == req[r] IN
        /\ s.open <= 1
        /\ s.open = IF s.pc \in {"create", "stream"} THEN 1 ELSE 0
        /\ \A k \in 1..Len(s.calls) : s.calls[k] = k
        /\ Len(s.calls) <= Len(s.drained) + 1
        /\ Len(s.calls) <= Len(s.item) + 1
        /\ s.opened <= Len(s.calls)
        /\ s.pc \in {"create", "stream"} =>
              /\ Len(s.calls) = s.i
              /\ Len(s.item) = s.i - 1

\* the stream of the second endpoint is open
C8_Witness ==
    \E r \in Requests :
        /\ req[r].pc = "stream"
        /\ req[r].calls = <<1, 2>>
        /\ req[r].stream # <<>>

\* C9: the done event is written in the step that writes the artifact, after
\* an item was appended for every endpoint; it is the one done event and the
\* last event of the stream, it names the file of the provider, and the
\* collection it carries is the one that step has written to the file.
C9_DoneAfterArtifact ==
    [][ \A r \in Requests :
          LET s == req[r] t == req'[r] IN
          /\ s.outcome = "done" => t = s
          /\ EventsOfKind(t.out, "done") # {} => t.outcome = "done"
          /\ t.outcome = "done" =>
                /\ t.pc = "ended"
                /\ Len(t.item) = Len(t.endpoints)
                /\ t.writes = 1
                /\ EventsOfKind(t.out, "done") = {Len(t.out)}
                /\ Len(Last(t.out).postmanCollection.item) = Len(t.endpoints)
          /\ (t.outcome = "done" /\ s.outcome # "done") =>
                /\ s.writes = 0
                /\ Last(t.out).savedTo = <<"generated-tests/", provider, "_combined_collection.json">>
                /\ Last(t.out).savedTo \in DOMAIN files'
                /\ files'[Last(t.out).savedTo] = [collection |-> Last(t.out).postmanCollection]
                /\ lastWriter' = r
      ]_vars

\* a request is done while the other one is still at work
C9_Witness ==
    \E r, q \in Requests :
        /\ req[r].outcome = "done"
        /\ Len(req[r].item) >= 2
        /\ req[q].pc = "stream"

\* C10: the items of a request come from its own endpoints and its own
\* provider texts, and the artifact is the whole collection of the request
\* that wrote last, the one its done event carries; with no writer there is
\* no artifact.
C10_LastWriterWins ==
    /\ \A r \in Requests :
          LET s == req[r] IN
          /\ Len(s.tests) = Len(s.item)
          /\ \A j \in 1..Len(s.item) :
                /\ s.item[j].request.method = s.endpoints[j].method
                /\ s.item[j].request.url.raw = <<"{{BASE_URL}}">> \o s.endpoints[j].path
                /\ s.item[j].name = Get(s.tests[j], "testCaseName")
                /\ \/ s.tests[j] = CanonicalFallback(s.endpoints[j])
                   \/ /\ j <= Len(s.drained)
                      /\ s.tests[j] = JSONParse(s.drained[j]).val
    /\ DOMAIN files \subseteq { <<"generated-tests/", provider, "_combined_collection.json">> }
    /\ lastWriter = 0 => DOMAIN files = {}
    /\ lastWriter # 0 =>
          LET w == req[lastWriter]
              f == files[<<"generated-tests/", provider, "_combined_collection.json">>]
          IN /\ w.outcome = "done"
             /\ f = [collection |-> Last(w.out).postmanCollection]
             /\ Len(f.collection.item) = Len(w.endpoints)
             /\ \A j \in 1..Len(f.collection.item) :
                   f.collection.item[j].request = w.item[j].request

\* both requests have drained provider streams and are done with different
\* collections; request 1 wrote last
C10_Witness ==
    /\ \A r \in Requests : req[r].outcome = "done" /\ req[r].drained # <<>>
    /\ lastWriter = 1
    /\ Len(req[2].out) > Len(req[1].out)
    /\ Last(req[1].out).postmanCollection # Last(req[2].out).postmanCollection
    /\ files[<<"generated-tests/", provider, "_combined_collection.json">>]
          = [collection |-> Last(req[1].out).postmanCollection]

\* C11: once the client has disconnected while endpoint i is in work, no
\* provider call is made for a later endpoint of that request.
C11_DisconnectStopsCalls ==
    \A r \in Requests :
        (req[r].gone /\ req[r].goneAt >= 1) =>
            \A k \in 1..Len(req[r].calls) : req[r].calls[k] <= req[r].goneAt

RECURSIVE PairAt(_, _)
\* the k-th (path, method key) pair of a document, in document order
PairAt(doc, k) ==
    IF k <= Len(Head(doc).methods)
    THEN [path |-> Head(doc).path, key |-> Head(doc).methods[k]]
    ELSE PairAt(Tail(doc), k - Len(Head(doc).methods))

\* path p with every placeholder { x }, x in names, spelled : x
WithColons(p, names) ==
    LET starts == { i \in 1..(Len(p) - 2) : p[i] = "{" /\ p[i + 1] \in names /\ p[i + 2] = "}" }
        kept == { i \in 1..Len(p) : (i - 2) \notin starts }
        nth(j) == CHOOSE i \in kept : Cardinality({ x \in kept : x <= i }) = j
    IN [ j \in 1..Cardinality(kept) |-> IF nth(j) \in starts THEN ":" ELSE p[nth(j)] ]

UpperCased == [get |-> "GET", post |-> "POST", delete |-> "DELETE", put |-> "PUT"]

\* the endpoints of a request are those of its document, one per pair and in
\* document order, the placeholders with a name of names rewritten
ListedFrom(s, names) ==
    /\ Len(s.endpoints) = CountPairs(s.doc)
    /\ \A k \in 1..Len(s.endpoints) :
          /\ s.endpoints[k].method = UpperCased[PairAt(s.doc, k).key]
          /\ s.endpoints[k].path = WithColons(PairAt(s.doc, k).path, names)

C13_NoRetryAbort ==
    \A r \in Requests :
        LET s == req[r] IN
        /\ \A j, k \in 1..Len(s.calls) : j # k => s.calls[j] # s.calls[k]
        /\ s.failedAt # 0 =>
              /\ s.pc = "ended"
              /\ s.outcome = "error"
              /\ Last(s.calls) = s.failedAt
              /\ \A k \in 1..Len(s.calls) : s.calls[k] <= s.failedAt
              /\ Len(s.item) = s.failedAt - 1
              /\ Last(s.out) = [ev |-> "error", error |-> s.upstream]

\* the provider failed for the first of two endpoints
C13_Witness ==
    \E r \in Requests :
        /\ req[r].failedAt = 1
        /\ Len(req[r].endpoints) = 2
        /\ req[r].calls = <<1>>

RECURSIVE Flatten(_)
\* the concatenation of a sequence of texts
Flatten(texts) == IF texts = <<>> THEN <<>> ELSE Head(texts) \o Flatten(Tail(texts))

\* the texts received for the j-th endpoint that are not empty
FragmentsOf(s, j) ==
    IF j <= Len(s.received) THEN SelectSeq(s.received[j], LAMBDA t : t # <<>>) ELSE <<>>

RECURSIVE EndpointEvents(_, _, _)
\* for the endpoints j..a in turn: the analyzing event, then one partial event
\* per fragment received for it
EndpointEvents(s, j, a) ==
    IF j > a THEN <<>>
    ELSE << [ev |-> "analyzing", step |-> <<"analyzing-">> \o s.endpoints[j].path,
             msg |-> <<"Analyzing ", s.endpoints[j].method, " ">> \o s.endpoints[j].path \o <<"...">>] >>
         \o [ k \in 1..Len(FragmentsOf(s, j)) |->
                [ev |-> "partial", step |-> <<"stream-">> \o s.endpoints[j].path,
                 partial |-> FragmentsOf(s, j)[k]] ]
         \o EndpointEvents(s, j + 1, a)

\* C14: between the start event and the final done or error event the stream
\* is, endpoint after endpoint, one analyzing event followed by one partial
\* event per non-empty text received for that endpoint, in arrival order; a
\* chunk without text adds no event, and the partial payloads of an endpoint
\* concatenated are the buffer decoded for it.
C14_EventsPerEndpoint ==
    \A r \in Requests :
        LET s == req[r]
            a == Cardinality(EventsOfKind(s.out, "analyzing"))
            last == IF s.outcome \in {"done", "error"} THEN Len(s.out) - 1 ELSE Len(s.out)
        IN s.endpoints # <<>> =>
              /\ a \in {Len(s.item), Len(s.item) + 1}
              /\ a <= Len(s.endpoints)
              /\ Len(s.received) \in {0, a}
              /\ s.out[1].ev = "start"
              /\ SubSeq(s.out, 2, last) = EndpointEvents(s, 1, a)
              /\ \A j \in 1..Len(s.drained) : Flatten(FragmentsOf(s, j)) = s.drained[j]
              /\ s.pc = "stream" => Flatten(FragmentsOf(s, s.i)) = s.rawResponse

\* a request is done whose first stream had two chunks with text and two
\* without
C14_Witness ==
    \E r \in Requests :
        /\ req[r].outcome = "done"
        /\ Len(req[r].received) = 2
        /\ Len(req[r].received[1]) = 4
        /\ Len(FragmentsOf(req[r], 1)) = 2

\* C15: with the gemini provider a request over one or more endpoints makes
\* no provider call and writes no partial and no error event; each of its
\* items is built from the canonical fallback, and it ends with the done event.
C15_GeminiFallsBack ==
    \A r \in Requests :
        LET s == req[r] IN
        (provider = "gemini" /\ s.fetched /\ s.endpoints # <<>>) =>
            /\ s.outcome = "done"
            /\ Last(s.out).ev = "done"
            /\ s.calls = <<>>
            /\ s.opened = 0
            /\ EventsOfKind(s.out, "partial") = {}
            /\ EventsOfKind(s.out, "error") = {}
            /\ Len(s.item) = Len(s.endpoints)
            /\ \A j \in 1..Len(s.item) :
                  /\ s.tests[j] = CanonicalFallback(s.endpoints[j])
                  /\ s.item[j].name = CanonicalFallback(s.endpoints[j]).v.testCaseName
                  /\ Len(s.item[j].event[1].script.exec) = 1

\* a gemini request over two endpoints is done
C15_Witness ==
    \E r \in Requests :
        /\ provider = "gemini"
        /\ req[r].outcome = "done"
        /\ Len(req[r].item) = 2

\* C16: every item of a collection was built from a test case whose steps is
\* a sequence of n >= 1 steps and carries n script lines, the k-th numbered k
\* and made from the action and the expected result of the k-th step.
C16_OneLinePerStep ==
    \A r \in Requests :
        \A j \in 1..Len(req[r].item) :
            LET steps == Get(req[r].tests[j], "steps")
                exec == req[r].item[j].event[1].script.exec
            IN /\ steps.t = "array"
               /\ Len(steps.v) >= 1
               /\ Len(exec) = Len(steps.v)
               /\ \A k \in 1..Len(exec) :
                     /\ exec[k].step = k
                     /\ exec[k].action = steps.v[k].v["action"].v
                     /\ exec[k].comment = steps.v[k].v["expectedResult"].v

\* an item with two script lines was appended
C16_Witness ==
    \E r \in Requests :
        \E j \in 1..Len(req[r].item) : Len(req[r].item[j].event[1].script.exec) = 2

\* the terminal outcomes of a run exclude each other and the response is
\* ended once
OneOutcome(s) ==
    /\ s.ends <= 1
    /\ s.pc = "ended" <=> s.ends = 1
    /\ s.pc = "ended" <=> s.outcome \in {"http400", "done", "error"}
    /\ s.pc # "ended" => s.outcome = "none"
    /\ s.outcome = "http400" <=> s.status = 400
    /\ s.outcome = "done" <=> EventsOfKind(s.out, "done") # {}
    /\ s.outcome = "error" <=> EventsOfKind(s.out, "error") # {}
    /\ Cardinality(EventsOfKind(s.out, "done") \cup EventsOfKind(s.out, "error")) <= 1
    /\ s.status = 400 => s.out = <<>>

\* C17: every request that was received ends, and it ends in exactly one of
\* the HTTP 400 answer, the done event and the error event, with its response
\* ended exactly once.
C17_OneTerminalOutcome ==
    /\ [](\A r \in Requests : OneOutcome(req[r]))
    /\ \A r \in Requests : (req[r].pc # "idle") ~> (req[r].pc = "ended")

\* a request has ended with an error event after it appended an item
C17_Witness ==
    \E r \in Requests :
        /\ req[r].pc = "ended"
        /\ req[r].ends = 1
        /\ req[r].outcome = "error"
        /\ Len(req[r].item) >= 1

\* C18: a step in which a request ends with an error event or the 400 answer
\* leaves the files as they are; a request writes the artifact at most once,
\* in a step after which it holds an item for every one of its endpoints; no
\* other step changes the files, and the artifact always has as many items as
\* its last writer has endpoints.
C18_NoPartialArtifact ==
    [][ /\ \A r \in Requests :
              LET s == req[r] t == req'[r] IN
              /\ t.writes <= 1
              /\ t.outcome \in {"error", "http400"} => t.writes = 0
              /\ (t # s /\ t.outcome \in {"error", "http400"}) =>
                    /\ files' = files
                    /\ lastWriter' = lastWriter
              /\ t.writes > s.writes =>
                    /\ t.outcome = "done"
                    /\ Len(t.endpoints) >= 1
                    /\ Len(t.item) = Len(t.endpoints)
                    /\ lastWriter' = r
        /\ files' # files => \E r \in Requests : req'[r].writes = req[r].writes + 1
        /\ \A f \in DOMAIN files' :
              Len(files'[f].collection.item) = Len(req'[lastWriter'].endpoints)
      ]_vars

\* request 2 has ended with an error event after it appended an item, and the
\* artifact is the one request 1 wrote
C18_Witness ==
    /\ req[2].outcome = "error"
    /\ Len(req[2].item) >= 1
    /\ lastWriter = 1
    /\ DOMAIN files # {}

\* C19: every item of a collection has a name that is a string.
C19_NameIsString ==
    \A r \in Requests :
        \A j \in 1..Len(req[r].item) : req[r].item[j].name.t = "string"

====
